---------------------------- MODULE Spec2Model ----------------------------
(***************************************************************************)
(* Model of the grace-bible reading application: the playback controller   *)
(* (playAudio / stopAudio / initAudio), the chapter loading effect         *)
(* (loadContent), the two service functions (fetchChapterText,             *)
(* generateSpeech) and the reading progress store with its persistence     *)
(* effects.                                                                *)
(*                                                                         *)
(* Execution is single threaded and event driven: every action below is    *)
(* one event handler, effect or promise continuation run to completion,    *)
(* together with the re-render and the effects it triggers.  An await is   *)
(* a point where other handlers may run, so an asynchronous function is    *)
(* split at its awaits.                                                    *)
(*                                                                         *)
(* Browser calls are taken to succeed (AudioContext construction,          *)
(* createBufferSource, connect, start, localStorage); the failures that    *)
(* are modelled are those of the external collaborator and of the decode   *)
(* steps.                                                                  *)
(***************************************************************************)
EXTENDS Integers, Sequences, FiniteSets, Bags, TLC

\* ------------------------------------------------------------------ bounds
\* Chapters per book of the modelled catalog.
NumChapters == 2
\* playAudio invocations that pass the guard (speech requests issued).
MaxPlays == 2
\* Chapter text fetches issued, the one of the mount effect included.
MaxFetches == 2

\* ------------------------------------------------------------ static data
\* BIBLE_BOOKS (./constants): the ids of two books; the first is BIBLE_BOOKS[0].
BIBLE_BOOKS == <<"gen", "exo">>
BookIds == {BIBLE_BOOKS[i] : i \in 1..Len(BIBLE_BOOKS)}
Chapters == 1..NumChapters

\* AudioState (./types), by the members the code uses.
AudioState == {"IDLE", "LOADING", "PLAYING", "ERROR"}

\* null for the two refs and for an unused slot.
Null == 0

\* Revisions of the service module present in the repository:
\* "guarded" is the one bundled in part_000 (try/catch, getAiClient),
\* "bare" is services/geminiService.ts.
Revisions == {"guarded", "bare"}

\* What the external collaborator can answer to a text request.
TextOutcomes == {"text", "empty", "reject", "nokey"}
\* What it can answer to a speech request: a failure, a response without
\* inline audio, or a payload (well formed PCM, valid base64 of odd byte
\* length, or text that is not base64).
SpeechOutcomes == {"reject", "nokey", "nodata", "pcm", "odd", "malformed"}

\* ---------------------------------------------------------------- state
VARIABLES
    rev,               \* the service revision linked into the build
    selectedBook,      \* useState selectedBook (its id)
    selectedChapter,   \* useState selectedChapter
    chapterContent,    \* useState chapterContent
    audioState,        \* useState audioState
    isLoadingContent,  \* useState isLoadingContent
    audioContextRef,   \* audioContextRef.current: Null or the context's number
    ctxCreated,        \* AudioContext objects constructed so far
    audioSourceRef,    \* audioSourceRef.current: Null or a node id
    nodes,             \* AudioBufferSourceNode per playAudio call
    calls,             \* playAudio invocations past the guard (dup: history)
    speechRequests,    \* generateSpeech calls issued so far
    fetches,           \* text fetches in flight: a bag of chapter references
    fetchCount,        \* loadContent invocations so far
    escaped,           \* history: an exception left playAudio uncaught
    lastOp,            \* history: the handler that ran last, and how it came out
    navigatedSince,    \* history: the calls in flight that a navigation has passed
    progress,          \* useState progress
    storage,           \* localStorage['bible-progress']
    phase,             \* mount / commit / ready
    found,             \* history: the text the load effect read, until the first toggle
    toggledOdd,        \* history: (book, chapter) pairs toggled an odd number of times
    dirty,             \* history: a toggle ran since the last startup
    lastToggle,        \* history: the last toggle's arguments and the pairs held before it
    data,              \* decodeAudioData's data: a byte sequence
    numChannels,       \* decodeAudioData's numChannels
    buffer,            \* what decodeAudioData made of them, once it has run
    fontSize,          \* useState fontSize
    fontStorage,       \* localStorage['bible-font-size']
    fontPhase,         \* mount / commit / ready, for the font size
    savedFontSize      \* the text the load effect read at this startup

audioVars == <<rev, selectedBook, selectedChapter, chapterContent, audioState,
               isLoadingContent, audioContextRef, ctxCreated, audioSourceRef,
               nodes, calls, speechRequests, fetches, fetchCount, escaped,
               lastOp, navigatedSince>>
progVars == <<progress, storage, phase, found, toggledOdd, dirty, lastToggle>>
pcmVars == <<data, numChannels, buffer>>
fontVars == <<fontSize, fontStorage, fontPhase, savedFontSize>>
vars == <<audioVars, progVars, pcmVars, fontVars>>

\* ------------------------------------------------------- chapter content
\* chapterContent values: '' (the initial state), a chapter's text, or one of
\* the fixed strings of the code.
EmptyText == [k |-> "empty", book |-> "", chap |-> 0]
TextOf(b, c) == [k |-> "text", book |-> b, chap |-> c]
Fixed(name) == [k |-> name, book |-> "", chap |-> 0]
\* part_000:25 / geminiService.ts:17, the string returned for an empty response.text
MsgNoText == Fixed("MSG_NO_TEXT")
\* part_000:28, the string returned from the catch of fetchChapterText
MsgReadFailed == Fixed("MSG_READ_FAILED")
\* part_000:128 / part_001:49, the string set by loadContent's catch
MsgLoadFailed == Fixed("MSG_LOAD_FAILED")

\* JavaScript truthiness of a string: only '' is falsy.
Truthy(s) == s.k # "empty"

\* ------------------------------------------------------------- services
Returned(v) == [kind |-> "return", value |-> v]
Thrown == [kind |-> "throw", value |-> EmptyText]

\* fetchChapterText(book, chapter) of the revision bundled in part_000, under
\* the collaborator's answer `outcome`: the whole body is inside a try whose
\* catch returns a fixed string, so a missing key (getAiClient throws) and a
\* rejected request both come back as that string.
fetchChapterTextGuarded(b, c, outcome) ==
    CASE outcome = "text"  -> Returned(TextOf(b, c))
      [] outcome = "empty" -> Returned(MsgNoText)
      [] OTHER             -> Returned(MsgReadFailed)

\* fetchChapterText(book, chapter) of services/geminiService.ts: no try, so a
\* rejection of generateContent (network, credential) leaves the function.
fetchChapterTextBare(b, c, outcome) ==
    CASE outcome = "text"  -> Returned(TextOf(b, c))
      [] outcome = "empty" -> Returned(MsgNoText)
      [] OTHER             -> Thrown

\* The fetchChapterText the build links.
fetchChapterText(r, b, c, outcome) ==
    IF r = "guarded"
    THEN fetchChapterTextGuarded(b, c, outcome)
    ELSE fetchChapterTextBare(b, c, outcome)

\* generateSpeech(text): the base64 payload, or a thrown error.  Both
\* revisions throw on a collaborator failure and on a missing payload
\* (the guarded one logs and rethrows).
generateSpeech(r, outcome) ==
    IF outcome \in {"reject", "nokey", "nodata"}
    THEN [kind |-> "throw", value |-> "none"]
    ELSE [kind |-> "return", value |-> outcome]

\* decodeBase64(base64): atob throws on text that is not base64.
decodeBase64(payload) ==
    IF payload \in {"malformed", "none"}
    THEN [kind |-> "throw", value |-> "none"]
    ELSE [kind |-> "return", value |-> payload]

\* decodeAudioData(data, ctx): new Int16Array(data.buffer) throws on a byte
\* length that is odd; otherwise the buffer is produced.
decodeAudioData(bytes) ==
    IF bytes \in {"odd", "none"}
    THEN [kind |-> "throw", value |-> "none"]
    ELSE [kind |-> "return", value |-> bytes]


\* ------------------------------------------------------------- playback
CallIds == 1..MaxPlays
Refs == BookIds \X Chapters

\* A call slot: where the invocation stands, and whether a later playAudio
\* returned at the guard while it was Loading.
NoCall == [pc |-> "idle", dup |-> FALSE]
Settled(name) == [pc |-> name, dup |-> FALSE]
Op(name) == [op |-> name, tag |-> ""]
OpTag(name, t) == [op |-> name, tag |-> t]

\* The sources currently sounding: started, not stopped and not run out.
ActiveNodes == {i \in CallIds : nodes[i] = "playing"}
InFlight == {i \in CallIds : calls[i].pc = "speech"}

\* try { ref.stop(); } catch(e) {} : a playing node stops (its ended event is
\* then pending); on a node that is no longer playing nothing changes and
\* whatever stop() throws is swallowed.
StopNode(ns, ref) ==
    IF ref # Null /\ ns[ref] = "playing"
    THEN [ns EXCEPT ![ref] = "finished"]
    ELSE ns

\* What stopAudio finds in the ref: nothing, a source that is playing, or one
\* that was stopped or has run out already.
SessionKind ==
    CASE audioSourceRef = Null              -> "none"
      [] nodes[audioSourceRef] = "playing"  -> "live"
      [] OTHER                              -> "stale"

\* stopAudio with the session reference left in place.
stopAudioKeepRef(ns, ref) ==
    [nodes |-> StopNode(ns, ref), ref |-> ref, state |-> "IDLE"]

\* stopAudio(): the nodes, the session reference and the playback state
\* after the call.
stopAudio(ns, ref) ==
    [nodes |-> IF ref # Null THEN StopNode(ns, ref) ELSE ns,
     ref   |-> Null,
     state |-> "IDLE"]

\* The guard also refusing a call made in the Error state.
PlayGuardErrorSticky(content, state) ==
    ~Truthy(content) \/ state \in {"LOADING", "ERROR"}

\* The guard with the Loading test left out.
PlayGuardContentOnly(content, state) == ~Truthy(content)

\* The guard of playAudio: TRUE when the call returns at once.
PlayGuard(content, state) == ~Truthy(content) \/ state = "LOADING"

\* initAudio constructing a context on every call.
initAudioAlways ==
    /\ ctxCreated' = ctxCreated + 1
    /\ audioContextRef' = ctxCreated + 1

\* initAudio(): the context is constructed when the ref is null, kept
\* otherwise (resume() of a suspended context changes nothing modelled here).
initAudio ==
    IF audioContextRef = Null
    THEN /\ ctxCreated' = ctxCreated + 1
         /\ audioContextRef' = ctxCreated + 1
    ELSE UNCHANGED <<audioContextRef, ctxCreated>>

\* A click on the play button while the state is not Playing (the button
\* calls stopAudio otherwise): playAudio() up to its first await.  The
\* floating button of part_000 is not disabled while the chapter loads, so
\* the click is possible in every such state.  A call that returns at the
\* guard changes only the history kept in lastOp and in the dup marks.
PlayAudio ==
    /\ audioState # "PLAYING"
    /\ IF PlayGuard(chapterContent, audioState)
       THEN /\ lastOp' = Op("playAudioReturned")
            /\ calls' = [i \in CallIds |->
                            IF audioState = "LOADING" /\ i \in InFlight
                            THEN [calls[i] EXCEPT !.dup = TRUE]
                            ELSE calls[i]]
            /\ UNCHANGED <<audioState, audioContextRef, ctxCreated,
                           speechRequests>>
       ELSE /\ speechRequests < MaxPlays      \* the model's bound
            /\ audioState' = "LOADING"
            /\ initAudio
            /\ speechRequests' = speechRequests + 1
            /\ calls' = [calls EXCEPT ![speechRequests + 1] =
                            [pc |-> "speech", dup |-> FALSE]]
            /\ lastOp' = OpTag("playAudio", audioState)
    /\ UNCHANGED <<rev, selectedBook, selectedChapter, chapterContent,
                   isLoadingContent, audioSourceRef, nodes, fetches,
                   fetchCount, escaped, navigatedSince,
                   progVars, pcmVars, fontVars>>

\* playAudio without its catch: the exception leaves the function.
PlayNoCatch(i) ==
    /\ escaped' = TRUE
    /\ calls' = [calls EXCEPT ![i] = Settled("failed")]
    /\ lastOp' = Op("playFailed")
    /\ UNCHANGED <<audioState, audioSourceRef, nodes>>

\* The catch of playAudio: setAudioState(ERROR) and the alert.
PlayCatch(i) ==
    /\ audioState' = "ERROR"
    /\ calls' = [calls EXCEPT ![i] = Settled("failed")]
    /\ lastOp' = Op("playFailed")
    /\ UNCHANGED <<audioSourceRef, nodes, escaped>>

\* The new source started beside the one still referenced.
PlayStartNoStop(i) ==
    /\ nodes' = [nodes EXCEPT ![i] = "playing"]
    /\ audioSourceRef' = i
    /\ audioState' = "PLAYING"
    /\ calls' = [calls EXCEPT ![i] = Settled("done")]
    /\ lastOp' = OpTag("playStarted", IF calls[i].dup THEN "dup" ELSE "")
    /\ UNCHANGED escaped

\* The tail of playAudio's try block: stop the referenced source, create,
\* connect and start the new one, keep it in the ref, setAudioState(PLAYING).
PlayStart(i) ==
    /\ nodes' = [StopNode(nodes, audioSourceRef) EXCEPT ![i] = "playing"]
    /\ audioSourceRef' = i
    /\ audioState' = "PLAYING"
    /\ calls' = [calls EXCEPT ![i] = Settled("done")]
    /\ lastOp' = OpTag("playStarted", IF calls[i].dup THEN "dup" ELSE "")
    /\ UNCHANGED escaped

\* The speech request of call i settles and playAudio runs to its end:
\* generateSpeech returns or throws, decodeBase64 and decodeAudioData run,
\* then the tail of the try block or the catch.  decodeAudioData awaits
\* nothing itself, so the await on it resumes in the microtask checkpoint of
\* this same task, before any other event, timer or response is handled.
SpeechSettle(i, outcome) ==
    /\ calls[i].pc = "speech"
    /\ LET r == generateSpeech(rev, outcome)
           d == decodeBase64(r.value)
           a == decodeAudioData(d.value)
       IN  IF r.kind = "throw" \/ d.kind = "throw" \/ a.kind = "throw"
           THEN PlayCatch(i)
           ELSE PlayStart(i)
    /\ navigatedSince' = navigatedSince \ {i}
    /\ UNCHANGED <<rev, selectedBook, selectedChapter, chapterContent,
                   isLoadingContent, audioContextRef, ctxCreated,
                   speechRequests, fetches, fetchCount, progVars, pcmVars, fontVars>>

\* A click on the play button while the state is Playing: stopAudio().
StopClick ==
    /\ audioState = "PLAYING"
    /\ LET s == stopAudio(nodes, audioSourceRef)
       IN  /\ nodes' = s.nodes
           /\ audioSourceRef' = s.ref
           /\ audioState' = s.state
    /\ lastOp' = OpTag("stopAudio", SessionKind)
    /\ UNCHANGED <<rev, selectedBook, selectedChapter, chapterContent,
                   isLoadingContent, audioContextRef, ctxCreated, calls,
                   speechRequests, fetches, fetchCount, escaped, navigatedSince,
                   progVars, pcmVars, fontVars>>

\* The buffer of a playing source runs out; its ended event is now pending.
SourceRunsOut(i) ==
    /\ nodes[i] = "playing"
    /\ nodes' = [nodes EXCEPT ![i] = "finished"]
    /\ lastOp' = Op("sourceRanOut")
    /\ UNCHANGED <<rev, selectedBook, selectedChapter, chapterContent,
                   audioState, isLoadingContent, audioContextRef, ctxCreated,
                   audioSourceRef, calls, speechRequests, fetches, fetchCount,
                   escaped, navigatedSince,
                   progVars, pcmVars, fontVars>>

\* source.onended: setAudioState(IDLE), for a source that ran out or was
\* stopped.
OnEnded(i) ==
    /\ nodes[i] = "finished"
    /\ nodes' = [nodes EXCEPT ![i] = "ended"]
    /\ audioState' = "IDLE"
    /\ lastOp' = Op("onended")
    /\ UNCHANGED <<rev, selectedBook, selectedChapter, chapterContent,
                   isLoadingContent, audioContextRef, ctxCreated,
                   audioSourceRef, calls, speechRequests, fetches, fetchCount,
                   escaped, navigatedSince,
                   progVars, pcmVars, fontVars>>

\* ------------------------------------------------------- chapter loading
\* loadContent with the fetch issued and the playback left alone.
loadContentNoStop(b, c) ==
    /\ fetchCount < MaxFetches
    /\ isLoadingContent' = TRUE
    /\ fetches' = fetches (+) SetToBag({<<b, c>>})
    /\ fetchCount' = fetchCount + 1
    /\ lastOp' = OpTag("loadContent", SessionKind)
    /\ UNCHANGED <<nodes, audioSourceRef, audioState>>
    /\ navigatedSince' = navigatedSince \cup InFlight

\* The effect on [selectedBook, selectedChapter]: loadContent() up to its
\* await: setIsLoadingContent(true), stopAudio(), fetchChapterText issued.
loadContent(b, c) ==
    /\ fetchCount < MaxFetches
    /\ LET s == stopAudio(nodes, audioSourceRef)
       IN  /\ nodes' = s.nodes
           /\ audioSourceRef' = s.ref
           /\ audioState' = s.state
    /\ isLoadingContent' = TRUE
    /\ fetches' = fetches (+) SetToBag({<<b, c>>})
    /\ fetchCount' = fetchCount + 1
    /\ lastOp' = OpTag("loadContent", SessionKind)
    /\ navigatedSince' = navigatedSince \cup InFlight

\* A click on a book of the sidebar: setSelectedBook(book),
\* setSelectedChapter(1); the effect runs when the reference changed.
SelectBook(b) ==
    /\ <<b, 1>> # <<selectedBook, selectedChapter>>
    /\ selectedBook' = b
    /\ selectedChapter' = 1
    /\ loadContent(b, 1)
    /\ UNCHANGED <<rev, chapterContent, audioContextRef, ctxCreated, calls,
                   speechRequests, escaped, progVars, pcmVars, fontVars>>

\* A click on a chapter of the footer: setSelectedChapter(chap).
SelectChapter(c) ==
    /\ c # selectedChapter
    /\ selectedChapter' = c
    /\ loadContent(selectedBook, c)
    /\ UNCHANGED <<rev, selectedBook, chapterContent, audioContextRef,
                   ctxCreated, calls, speechRequests, escaped, progVars, pcmVars, fontVars>>

\* loadContent dropping the response of a fetch that is not for the selected
\* chapter any more.
TextSettleIfCurrent(f, outcome) ==
    /\ BagIn(f, fetches)
    /\ LET r == fetchChapterText(rev, f[1], f[2], outcome)
       IN  /\ chapterContent' =
                  IF f # <<selectedBook, selectedChapter>> THEN chapterContent
                  ELSE IF r.kind = "return" THEN r.value
                  ELSE MsgLoadFailed
           /\ lastOp' = OpTag("textSettled", r.kind)
    /\ isLoadingContent' = FALSE
    /\ fetches' = fetches (-) SetToBag({f})
    /\ UNCHANGED <<rev, selectedBook, selectedChapter, audioState,
                   audioContextRef, ctxCreated, audioSourceRef, nodes, calls,
                   speechRequests, fetchCount, escaped, navigatedSince,
                   progVars, pcmVars, fontVars>>

\* The text fetch f settles: loadContent resumes after its await, its catch
\* replaces a thrown error by a fixed string, its finally clears the flag.
TextSettle(f, outcome) ==
    /\ BagIn(f, fetches)
    /\ LET r == fetchChapterText(rev, f[1], f[2], outcome)
       IN  /\ chapterContent' = IF r.kind = "return" THEN r.value
                                ELSE MsgLoadFailed
           /\ lastOp' = OpTag("textSettled", r.kind)
    /\ isLoadingContent' = FALSE
    /\ fetches' = fetches (-) SetToBag({f})
    /\ UNCHANGED <<rev, selectedBook, selectedChapter, audioState,
                   audioContextRef, ctxCreated, audioSourceRef, nodes, calls,
                   speechRequests, fetchCount, escaped, navigatedSince,
                   progVars, pcmVars, fontVars>>

\* ------------------------------------------------------- reading progress
\* A ReadingProgress object: its own properties in insertion order, each a
\* book id with an array of chapter numbers.  {} is the empty sequence.
EmptyProgress == <<>>

\* prev[bookId]: the array, or undefined when the object has no such key.
Lookup(p, b) ==
    IF \E i \in 1..Len(p) : p[i].id = b
    THEN [defined |-> TRUE,
          v |-> p[CHOOSE i \in 1..Len(p) : p[i].id = b].chapters]
    ELSE [defined |-> FALSE, v |-> <<>>]

\* x || [] : an array is truthy, undefined is not.
OrEmpty(x) == IF x.defined THEN x.v ELSE <<>>

\* includes looking at the first element only.
IncludesFirstOnly(list, c) == list # <<>> /\ list[1] = c

\* list.includes(c)
Includes(list, c) == \E i \in 1..Len(list) : list[i] = c

\* list.filter(x => x !== c)
Without(list, c) == SelectSeq(list, LAMBDA x : x # c)

\* { ...p, [b]: v } : an existing key keeps its place, a new one goes last.
SetKey(p, b, v) ==
    IF \E i \in 1..Len(p) : p[i].id = b
    THEN [i \in 1..Len(p) |->
             IF p[i].id = b THEN [id |-> b, chapters |-> v] ELSE p[i]]
    ELSE Append(p, [id |-> b, chapters |-> v])

\* The updater with the removal branch missing: the chapter is always added.
toggleAlwaysAdd(prev, b, c) ==
    SetKey(prev, b, Append(OrEmpty(Lookup(prev, b)), c))

\* The updater of toggleChapterProgress: prev => { ...prev, [bookId]: updated }.
toggle(prev, b, c) ==
    LET currentBookChapters == OrEmpty(Lookup(prev, b))
        updated == IF Includes(currentBookChapters, c)
                   THEN Without(currentBookChapters, c)
                   ELSE Append(currentBookChapters, c)
    IN  SetKey(prev, b, updated)

\* isCompleted without the `|| []`: includes is called on undefined.
isCompletedNoDefault(p, b, c) ==
    IF Lookup(p, b).defined
    THEN [fault |-> FALSE, value |-> Includes(Lookup(p, b).v, c)]
    ELSE [fault |-> TRUE, value |-> FALSE]

\* isCompleted(bookId, chapter): (progress[bookId] || []).includes(chapter)
isCompleted(p, b, c) ==
    [fault |-> FALSE, value |-> Includes(OrEmpty(Lookup(p, b)), c)]

\* The count beside a book of the sidebar: (progress[book.id] || []).length
completedCount(p, b) == Len(OrEmpty(Lookup(p, b)))

\* The (book, chapter) pairs a mapping holds.
Members(p) ==
    UNION {{<<p[i].id, p[i].chapters[j]>> : j \in 1..Len(p[i].chapters)} :
              i \in 1..Len(p)}

\* ------------------------------------------------------------------ JSON
\* A JSON text is the sequence of its tokens: punctuation, a quoted key,
\* decimal digits.
Digits == <<"0", "1", "2", "3", "4", "5", "6", "7", "8", "9">>
IsDigit(t) == \E d \in 1..Len(Digits) : Digits[d] = t
DigitVal(t) == (CHOOSE d \in 1..Len(Digits) : Digits[d] = t) - 1

RECURSIVE NumText(_)
NumText(n) ==
    IF n < Len(Digits)
    THEN <<Digits[n + 1]>>
    ELSE NumText(n \div Len(Digits)) \o <<Digits[(n % Len(Digits)) + 1]>>

RECURSIVE ArrayBody(_)
ArrayBody(l) ==
    IF l = <<>> THEN <<>>
    ELSE IF Len(l) = 1 THEN NumText(l[1])
    ELSE NumText(l[1]) \o <<",">> \o ArrayBody(Tail(l))

RECURSIVE ObjectBody(_)
ObjectBody(p) ==
    IF p = <<>> THEN <<>>
    ELSE LET e == <<p[1].id, ":", "[">> \o ArrayBody(p[1].chapters) \o <<"]">>
         IN  IF Len(p) = 1 THEN e ELSE e \o <<",">> \o ObjectBody(Tail(p))

\* JSON.stringify(progress)
Stringify(p) == <<"{">> \o ObjectBody(p) \o <<"}">>

RECURSIVE ParseDigits(_, _, _)
ParseDigits(s, i, acc) ==
    IF i <= Len(s) /\ IsDigit(s[i])
    THEN ParseDigits(s, i + 1, acc * Len(Digits) + DigitVal(s[i]))
    ELSE [val |-> acc, next |-> i]

RECURSIVE ParseItems(_, _, _)
ParseItems(s, i, acc) ==
    IF i > Len(s) THEN [val |-> acc, next |-> i]
    ELSE IF s[i] = "]" THEN [val |-> acc, next |-> i + 1]
    ELSE IF s[i] = "," THEN ParseItems(s, i + 1, acc)
    ELSE LET n == ParseDigits(s, i, 0)
         IN  ParseItems(s, n.next, Append(acc, n.val))

RECURSIVE ParseEntries(_, _, _)
ParseEntries(s, i, acc) ==
    IF i > Len(s) \/ s[i] = "}" THEN acc
    ELSE IF s[i] = "," THEN ParseEntries(s, i + 1, acc)
    ELSE LET arr == ParseItems(s, i + 3, <<>>)
         IN  ParseEntries(s, arr.next, SetKey(acc, s[i], arr.val))

\* JSON.parse(text) of a text JSON.stringify wrote.
Parse(s) == ParseEntries(s, 2, EmptyProgress)

\* localStorage.getItem of a key that was never set: null.  The model writes
\* it as the empty text, which the code's `if (savedProgress)` treats alike.
NoItem == <<>>

\* ------------------------------------------------------ progress actions
\* The last toggle: its arguments, how many times in a row it was made with
\* them (1 or 2), and the pairs held before it and before the one before it.
NoToggle == [n |-> 0, book |-> "", chap |-> 0, before |-> {}, before2 |-> {}]

\* The mount effects: the load effect reads the saved text and, when it is
\* truthy, queues setProgress(JSON.parse(saved)); the sync effect then writes
\* the mapping of this render, the initial {}.
MountEffects ==
    /\ phase = "mount"
    /\ found' = storage
    /\ storage' = Stringify(progress)
    /\ phase' = IF storage # NoItem THEN "commit" ELSE "ready"
    /\ UNCHANGED <<progress, toggledOdd, dirty, lastToggle, audioVars,
                   pcmVars, fontVars>>

\* The commit of the queued update with the sync effect never run again.
StartupCommitNoSync ==
    /\ phase = "commit"
    /\ progress' = Parse(found)
    /\ phase' = "ready"
    /\ UNCHANGED <<storage, found, toggledOdd, dirty, lastToggle, audioVars,
                   pcmVars, fontVars>>

\* The re-render with the loaded mapping; the sync effect runs again on the
\* changed [progress].
StartupCommit ==
    /\ phase = "commit"
    /\ progress' = Parse(found)
    /\ storage' = Stringify(progress')
    /\ phase' = "ready"
    /\ UNCHANGED <<found, toggledOdd, dirty, lastToggle, audioVars,
                   pcmVars, fontVars>>

\* A click on a progress mark: toggleChapterProgress(bookId, chapter), the
\* re-render and the sync effect on the changed [progress].
Toggle(b, c) ==
    /\ phase = "ready"
    /\ progress' = toggle(progress, b, c)
    /\ storage' = Stringify(progress')
    /\ toggledOdd' = IF <<b, c>> \in toggledOdd
                     THEN toggledOdd \ {<<b, c>>}
                     ELSE toggledOdd \cup {<<b, c>>}
    /\ dirty' = TRUE
    /\ found' = NoItem
    /\ lastToggle' =
          [n |-> IF lastToggle.n > 0 /\ lastToggle.book = b /\ lastToggle.chap = c
                 THEN 2 ELSE 1,
           book |-> b, chap |-> c,
           before |-> Members(progress), before2 |-> lastToggle.before]
    /\ UNCHANGED <<phase, audioVars,
                   pcmVars, fontVars>>

\* The page is loaded again: every useState starts over, storage stays.
Reload ==
    /\ phase = "ready"
    /\ progress' = EmptyProgress
    /\ phase' = "mount"
    /\ found' = NoItem
    /\ dirty' = FALSE
    /\ lastToggle' = NoToggle
    /\ UNCHANGED <<storage, toggledOdd, audioVars,
                   pcmVars, fontVars>>

\* ------------------------------------------------------------ PCM decode
MaxBytes == 8
MaxChannels == 2

\* The byte values the buffers are drawn from: both ends of the range and the
\* two values around the sign bit.
ByteValues == {0, 127, 128, 255}

\* The byte sequences of at most n bytes.
ByteSeqs(n) == UNION {[1..k -> ByteValues] : k \in 0..n}

NoBuffer == [kind |-> "none", value |-> <<>>]
BufferThrown == [kind |-> "throw", value |-> <<>>]

\* new Int16Array(data.buffer): RangeError when the byte length is odd;
\* otherwise element k is the two's complement integer whose low byte is byte
\* 2k and whose high byte is byte 2k+1 (typed arrays use the byte order of the
\* platform, little-endian on every platform a browser runs on).
Int16Array(bytes) ==
    IF Len(bytes) % 2 # 0
    THEN BufferThrown
    ELSE [kind  |-> "return",
          value |-> [k \in 1..(Len(bytes) \div 2) |->
                        LET lo == bytes[2 * k - 1]
                            hi == bytes[2 * k]
                        IN  IF hi >= 128 THEN (hi - 256) * 256 + lo
                            ELSE hi * 256 + lo]]

\* x / 32768.0 stored into a Float32Array: the quotient of a 16-bit integer by
\* 2^15 is a float32 exactly, kept here as the fraction.
Float32(x) == [num |-> x, den |-> 32768]

\* ctx.createBuffer(numChannels, frameCount, sampleRate): the length is the
\* frame count converted to an unsigned long (its fraction dropped);
\* NotSupportedError when that is less than one frame.
createBuffer(n, frameCount) ==
    IF frameCount < 1
    THEN BufferThrown
    ELSE [kind |-> "return",
          value |-> [c \in 1..n |-> [i \in 1..frameCount |-> Float32(0)]]]

\* The decoder reading channel after channel instead of frame after frame.
decodeAudioDataPlanar(bytes, n) ==
    LET dataInt16 == Int16Array(bytes)
        frameCount == Len(dataInt16.value) \div n
        made == createBuffer(n, frameCount)
    IN  IF dataInt16.kind = "throw" \/ made.kind = "throw"
        THEN BufferThrown
        ELSE [kind |-> "return",
              value |-> [c \in 1..n |-> [i \in 1..frameCount |->
                            Float32(dataInt16.value[(c - 1) * frameCount + i])]]]

\* decodeAudioData(data, ctx, sampleRate, numChannels) on a byte sequence:
\* channelData[i] = dataInt16[i * numChannels + channel] / 32768.0 for every
\* frame i of the created buffer (indices from 0 in the code, from 1 here).  A
\* write past the last frame, which the loop makes when the sample count is
\* no multiple of numChannels, changes nothing.
decodeAudioDataPcm(bytes, n) ==
    LET dataInt16 == Int16Array(bytes)
        frameCount == Len(dataInt16.value) \div n
        made == createBuffer(n, frameCount)
    IN  IF dataInt16.kind = "throw" \/ made.kind = "throw"
        THEN BufferThrown
        ELSE [kind |-> "return",
              value |-> [c \in 1..n |-> [i \in 1..frameCount |->
                            Float32(dataInt16.value[(i - 1) * n + (c - 1) + 1])]]]

\* One call of decodeAudioData on the bytes at hand.
DecodeAudioData ==
    /\ buffer = NoBuffer
    /\ buffer' = decodeAudioDataPcm(data, numChannels)
    /\ UNCHANGED <<data, numChannels, audioVars, progVars, fontVars>>

\* -------------------------------------------------------------- font size
Min(a, b) == IF a <= b THEN a ELSE b
Max(a, b) == IF a >= b THEN a ELSE b

\* What parseInt returns on a text that does not start with a digit; the
\* numbers of the model are not negative, so -1 stands for it.
NaN == -1

\* fontSize.toString(): the decimal digits of the number.
toString(n) == IF n = NaN THEN <<"NaN">> ELSE NumText(n)

\* parseInt(text, 10): the number written by the leading digits of the text,
\* NaN when there is none.
parseInt(text) ==
    IF text = <<>> \/ ~IsDigit(text[1]) THEN NaN
    ELSE ParseDigits(text, 1, 0).val

\* The updater with the upper limit left out.
adjustFontSizeNoCeiling(prev, delta) ==
    IF prev = NaN THEN NaN ELSE Max(14, prev + delta)

\* The updater of adjustFontSize: prev => Math.min(48, Math.max(14, prev + delta))
adjustFontSize(prev, delta) ==
    IF prev = NaN THEN NaN ELSE Min(48, Max(14, prev + delta))

\* The two buttons: adjustFontSize(-2) and adjustFontSize(2).
Deltas == {-2, 2}

\* The font size half of the mount effects: the load effect reads the saved
\* text and, when it is truthy, queues setFontSize(parseInt(saved, 10)); the
\* sync effect then writes the size of this render, the initial one.
FontMountEffects ==
    /\ fontPhase = "mount"
    /\ savedFontSize' = fontStorage
    /\ fontStorage' = toString(fontSize)
    /\ fontPhase' = IF fontStorage # NoItem THEN "commit" ELSE "ready"
    /\ UNCHANGED <<fontSize, audioVars, progVars, pcmVars>>

\* The re-render with the loaded size; the sync effect runs again when the
\* size differs from the one rendered before.
FontStartupCommit ==
    /\ fontPhase = "commit"
    /\ fontSize' = parseInt(savedFontSize)
    /\ fontStorage' = IF fontSize' # fontSize THEN toString(fontSize')
                      ELSE fontStorage
    /\ fontPhase' = "ready"
    /\ UNCHANGED <<savedFontSize, audioVars, progVars, pcmVars>>

\* A click on one of the two size buttons: the updater, the re-render and
\* the sync effect when the size changed.
AdjustFontSize(delta) ==
    /\ fontPhase = "ready"
    /\ fontSize' = adjustFontSize(fontSize, delta)
    /\ fontStorage' = IF fontSize' # fontSize THEN toString(fontSize')
                      ELSE fontStorage
    /\ UNCHANGED <<fontPhase, savedFontSize, audioVars, progVars, pcmVars>>

\* The page is loaded again: useState(20) starts over, storage stays.
FontReload ==
    /\ fontPhase = "ready"
    /\ fontSize' = 20
    /\ fontPhase' = "mount"
    /\ savedFontSize' = NoItem
    /\ UNCHANGED <<fontStorage, audioVars, progVars, pcmVars>>

\* --------------------------------------------------------- specifications
\* After the first render and its effects: the mount run of loadContent has
\* called stopAudio and issued the fetch of BIBLE_BOOKS[0] chapter 1.
InitAudio ==
    /\ rev \in Revisions
    /\ selectedBook = BIBLE_BOOKS[1]
    /\ selectedChapter = 1
    /\ chapterContent = EmptyText
    /\ audioState = "IDLE"
    /\ isLoadingContent = TRUE
    /\ audioContextRef = Null
    /\ ctxCreated = 0
    /\ audioSourceRef = Null
    /\ nodes = [i \in CallIds |-> "none"]
    /\ calls = [i \in CallIds |-> NoCall]
    /\ speechRequests = 0
    /\ fetches = SetToBag({<<BIBLE_BOOKS[1], 1>>})
    /\ fetchCount = 1
    /\ escaped = FALSE
    /\ lastOp = OpTag("loadContent", "none")
    /\ navigatedSince = {}

\* The first render of a first visit, before its effects.
InitProgress ==
    /\ progress = EmptyProgress
    /\ storage = NoItem
    /\ phase = "mount"
    /\ found = NoItem
    /\ toggledOdd = {}
    /\ dirty = FALSE
    /\ lastToggle = NoToggle

\* No decodeAudioData call has been made.
InitPcm ==
    /\ data = <<>>
    /\ numChannels = 1
    /\ buffer = NoBuffer

\* The first render of a first visit: useState(20), nothing stored.
InitFont ==
    /\ fontSize = 20
    /\ fontStorage = NoItem
    /\ fontPhase = "mount"
    /\ savedFontSize = NoItem

Init == InitAudio /\ InitProgress /\ InitPcm /\ InitFont

\* The playback controller and the chapter loading.
Next ==
    \/ PlayAudio
    \/ StopClick
    \/ \E i \in CallIds, o \in SpeechOutcomes : SpeechSettle(i, o)
    \/ \E i \in CallIds : SourceRunsOut(i)
    \/ \E i \in CallIds : OnEnded(i)
    \/ \E b \in BookIds : SelectBook(b)
    \/ \E c \in Chapters : SelectChapter(c)
    \/ \E f \in Refs, o \in TextOutcomes : TextSettle(f, o)

Spec == Init /\ [][Next]_vars

\* The reading progress store and its persistence.
NextProgress ==
    \/ MountEffects
    \/ StartupCommit
    \/ \E b \in BookIds, c \in Chapters : Toggle(b, c)
    \/ Reload

SpecProgress == Init /\ [][NextProgress]_vars

\* The PCM decoder on every byte sequence and channel count within the bounds.
InitDecode ==
    /\ InitAudio /\ InitProgress /\ InitFont
    /\ rev = "bare"
    /\ data \in ByteSeqs(MaxBytes)
    /\ numChannels \in 1..MaxChannels
    /\ buffer = NoBuffer

NextPcm == DecodeAudioData

SpecPcm == InitDecode /\ [][NextPcm]_vars

\* The font size preference, from a first visit and from every stored size
\* the claim names.
InitFontSize ==
    /\ InitAudio /\ InitProgress /\ InitPcm
    /\ rev = "bare"
    /\ fontSize = 20
    /\ fontStorage \in {NoItem} \cup {toString(n) : n \in 14..48}
    /\ fontPhase = "mount"
    /\ savedFontSize = NoItem

NextFont ==
    \/ FontMountEffects
    \/ FontStartupCommit
    \/ \E delta \in Deltas : AdjustFontSize(delta)
    \/ FontReload

SpecFont == InitFontSize /\ [][NextFont]_vars

\* ------------------------------------------------------------ properties
SymDiff(A, B) == (A \ B) \cup (B \ A)
Pcs(cs) == [i \in CallIds |-> cs[i].pc]
\* The step is one in which call i fails.
FailStep(i) == calls[i].pc = "speech" /\ calls'[i].pc = "failed"

\* C1: at most one audio source is active in every reachable state; an active
\* source is the one the session reference holds, and right after playAudio
\* has started a source it is the only one active.
C1_AtMostOneActiveSource ==
    /\ Cardinality(ActiveNodes) <= 1
    /\ ActiveNodes \subseteq {audioSourceRef}
    /\ lastOp.op = "playStarted" => ActiveNodes = {audioSourceRef}

\* C1 witness: a second source was started while the first was referenced,
\* and the first is no longer playing.
C1_Witness ==
    /\ lastOp.op = "playStarted"
    /\ \E i, j \in CallIds :
          /\ i # j
          /\ nodes[i] = "playing"
          /\ audioSourceRef = i
          /\ nodes[j] \in {"finished", "ended"}

\* C2: a playAudio call made with empty chapter text or in the Loading state
\* changes no program state, issues no speech request and creates neither a
\* context nor a source; and a call that saw a second call return at the guard
\* while it was Loading leaves exactly one source active when it succeeds.
C2_GuardedPlayIsNoOp ==
    /\ [][(PlayAudio /\ (~Truthy(chapterContent) \/ audioState = "LOADING"))
            => /\ UNCHANGED <<selectedBook, selectedChapter, chapterContent,
                              audioState, isLoadingContent, audioContextRef,
                              ctxCreated, audioSourceRef, nodes, speechRequests,
                              fetches, fetchCount, progress, storage>>
               /\ Pcs(calls') = Pcs(calls)]_vars
    /\ []((lastOp.op = "playStarted" /\ lastOp.tag = "dup")
            => Cardinality(ActiveNodes) = 1)

\* C2 witness: a call during whose Loading a second call returned at the guard
\* has succeeded, and one source is active.
C2_Witness ==
    /\ lastOp = OpTag("playStarted", "dup")
    /\ Cardinality(ActiveNodes) = 1
    /\ speechRequests = 1

\* C3: every change of the selected book or chapter issues a text fetch, and
\* in the step that issues a text fetch stopAudio has run: the source that was
\* referenced is not playing, the session reference is null, the playback
\* state is Idle.
C3_StopBeforeFetch ==
    [][/\ (selectedBook' # selectedBook \/ selectedChapter' # selectedChapter)
            => fetchCount' = fetchCount + 1
       /\ fetchCount' # fetchCount
            => /\ audioSourceRef' = Null
               /\ audioState' = "IDLE"
               /\ ActiveNodes' = {}
               /\ audioSourceRef # Null => nodes'[audioSourceRef] # "playing"
               /\ isLoadingContent']_vars

\* C3 witness: a navigation found a playing source and stopped it.
C3_Witness ==
    /\ lastOp = OpTag("loadContent", "live")
    /\ audioSourceRef = Null
    /\ audioState = "IDLE"
    /\ \E i \in CallIds : nodes[i] = "finished"

\* C4: stopAudio, from the button or from loadContent, in any playback state
\* and whatever the session reference holds, raises no fault and leaves the
\* session reference null and the playback state Idle; with no session
\* referenced it changes nothing else of the playback.
C4_StopAlwaysIdle ==
    [][lastOp'.op \in {"stopAudio", "loadContent"}
         => /\ audioSourceRef' = Null
            /\ audioState' = "IDLE"
            /\ escaped' = FALSE
            /\ audioSourceRef = Null
                 => UNCHANGED <<nodes, calls, audioContextRef, ctxCreated,
                                speechRequests>>
            /\ (audioSourceRef # Null /\ nodes[audioSourceRef] # "playing")
                 => nodes' = nodes]_vars

\* C4 witness: stopAudio ran on a referenced source that had already run out,
\* while the state was not Playing any more.
C4_Witness ==
    /\ lastOp = OpTag("loadContent", "stale")
    /\ audioSourceRef = Null
    /\ audioState = "IDLE"

\* C5: a playAudio call one of whose steps fails ends in the Error state, has
\* created no source, has neither stopped nor replaced the referenced source,
\* and lets no exception out.
C5_FailureLeavesSessionAlone ==
    [][(\E i \in CallIds : FailStep(i))
         => /\ audioState' = "ERROR"
            /\ nodes' = nodes
            /\ audioSourceRef' = audioSourceRef
            /\ escaped' = FALSE
            /\ UNCHANGED <<audioContextRef, ctxCreated>>]_vars

\* C5 witness: a call has failed while the source of another call is
\* referenced and still playing.
C5_Witness ==
    /\ lastOp.op = "playFailed"
    /\ audioState = "ERROR"
    /\ audioSourceRef # Null
    /\ nodes[audioSourceRef] = "playing"

\* C6: in the Error state playAudio is possible, and a playAudio call made
\* there (the chapter text is not empty) sets Loading and issues one speech
\* request; stopAudio and navigation lead from Error to Idle; the failing
\* step of a call issues no speech request.
C6_ErrorIsRecoverable ==
    /\ []((audioState = "ERROR" /\ speechRequests < MaxPlays)
            => (Truthy(chapterContent) /\ ENABLED PlayAudio))
    /\ [][/\ (audioState = "ERROR" /\ PlayAudio)
               => /\ audioState' = "LOADING"
                  /\ speechRequests' = speechRequests + 1
                  /\ calls'[speechRequests'].pc = "speech"
          /\ (audioState = "ERROR" /\ lastOp'.op \in {"stopAudio", "loadContent"})
               => audioState' = "IDLE"
          /\ (\E i \in CallIds : FailStep(i))
               => /\ speechRequests' = speechRequests
                  /\ InFlight' \subseteq InFlight]_vars

\* C6 witness: a playAudio call found the Error state and is now Loading.
C6_Witness ==
    /\ lastOp = OpTag("playAudio", "ERROR")
    /\ audioState = "LOADING"
    /\ \E i \in CallIds : calls[i].pc = "failed"

\* C7: a toggle flips the membership of its (book, chapter) pair and of no
\* other pair, and two toggles in a row with the same arguments restore the
\* membership of every pair.
C7_ToggleFlipsAndRestores ==
    /\ lastToggle.n >= 1
         => Members(progress) =
               SymDiff(lastToggle.before, {<<lastToggle.book, lastToggle.chap>>})
    /\ lastToggle.n = 2 => Members(progress) = lastToggle.before2
    /\ toggle(<<[id |-> "genesis", chapters |-> <<1, 2>>]>>, "genesis", 2)
          = <<[id |-> "genesis", chapters |-> <<1>>]>>

\* C7 witness: the same pair was toggled twice in a row on a mapping that
\* holds other pairs.
C7_Witness ==
    /\ lastToggle.n = 2
    /\ Cardinality(Members(progress)) >= 2
    /\ <<lastToggle.book, lastToggle.chap>> \in Members(progress)

\* C8: once the mapping is loaded, isCompleted(b, c) does not fault and is
\* true exactly for the pairs toggled an odd number of times since the
\* storage was empty; so it is false for every chapter of a book never
\* toggled.
C8_IsCompletedIsParity ==
    phase = "ready"
      => \A b \in BookIds, c \in Chapters :
            /\ ~isCompleted(progress, b, c).fault
            /\ isCompleted(progress, b, c).value <=> <<b, c>> \in toggledOdd

\* C8 witness: a book has no key in the mapping while a chapter of another
\* book is completed.
C8_Witness ==
    /\ phase = "ready"
    /\ \E b, d \in BookIds :
          /\ ~Lookup(progress, b).defined
          /\ \A c \in Chapters : ~isCompleted(progress, b, c).value
          /\ isCompleted(progress, d, 1).value

\* C9: once the effects have run the stored text is the serialization of the
\* mapping in memory and parses back to it; a startup that found a saved text
\* ends with that text stored and its mapping in memory, and a startup that
\* found none ends with the empty mapping.
C9_PersistenceLossless ==
    phase = "ready"
      => /\ storage = Stringify(progress)
         /\ Parse(storage) = progress
         /\ (~dirty /\ found # NoItem)
              => (storage = found /\ progress = Parse(found))
         /\ (~dirty /\ found = NoItem) => progress = EmptyProgress

\* C9 witness: a startup found a saved mapping of two books, one of them with
\* an empty array, and has settled.
C9_Witness ==
    /\ phase = "ready"
    /\ ~dirty
    /\ found # NoItem
    /\ Len(progress) = 2
    /\ \E i \in 1..2 : progress[i].chapters = <<>>
    /\ \E i \in 1..2 : Len(progress[i].chapters) = NumChapters

\* C10: fetchChapterText never lets an exception out: every settled text
\* fetch resolved to a string, which is not empty.
C10_FetchTextNeverThrows ==
    lastOp.op = "textSettled"
      => (lastOp.tag = "return" /\ Truthy(chapterContent))

\* The signed 16-bit integer whose little-endian bytes are lo and hi.
SignedLE(lo, hi) ==
    LET u == lo + 256 * hi IN IF u >= 32768 THEN u - 65536 ELSE u

SampleCount == Len(data) \div 2

\* The buffer made has SampleCount / numChannels frames in each of its
\* numChannels channels, sample i of channel c is the integer of bytes 2k and
\* 2k+1, k = i * numChannels + c, over 32768, and every k is read by exactly
\* one (channel, frame) pair.
DecodedInterleaved ==
    /\ buffer.kind = "return"
    /\ Len(buffer.value) = numChannels
    /\ \A c \in 1..numChannels :
          /\ Len(buffer.value[c]) * numChannels = SampleCount
          /\ \A i \in 1..Len(buffer.value[c]) :
                LET k == (i - 1) * numChannels + (c - 1)
                IN  /\ buffer.value[c][i].num = SignedLE(data[2 * k + 1], data[2 * k + 2])
                    /\ buffer.value[c][i].den = 32768
                    /\ buffer.value[c][i].num \in -32768..32767
    /\ \A k \in 0..(SampleCount - 1) :
          Cardinality({p \in (1..numChannels) \X (1..Len(buffer.value[1])) :
                          (p[2] - 1) * numChannels + (p[1] - 1) = k}) = 1

\* C11 as stated: for every byte buffer of even length and every channel
\* count dividing the sample count, decodeAudioData yields the buffer of
\* interleaved samples, each the little-endian 16-bit integer over 32768.
C11_DecodesEveryEvenBuffer ==
    (buffer # NoBuffer /\ Len(data) % 2 = 0 /\ SampleCount % numChannels = 0)
      => DecodedInterleaved

\* C11, amended: the same for every buffer of even length that is not empty;
\* on the empty buffer decodeAudioData throws and yields no buffer.
C11_DecodesNonEmptyEvenBuffer ==
    /\ (buffer # NoBuffer /\ Len(data) % 2 = 0 /\ Len(data) > 0
          /\ SampleCount % numChannels = 0)
         => DecodedInterleaved
    /\ (buffer # NoBuffer /\ Len(data) = 0) => buffer.kind = "throw"

\* C11 witness: two frames of two channels were decoded, with the least and
\* the greatest 16-bit integer among the samples.
C11_Witness ==
    /\ buffer.kind = "return"
    /\ numChannels = 2
    /\ Len(buffer.value[1]) = 2
    /\ \E c, d \in 1..2, i, j \in 1..2 :
          /\ buffer.value[c][i].num = -32768
          /\ buffer.value[d][j].num = 32767

\* The edges of the playback state graph, stopAudio's edges to Idle apart.
StateGraph ==
    {<<"IDLE", "LOADING">>, <<"LOADING", "PLAYING">>, <<"PLAYING", "IDLE">>,
     <<"LOADING", "ERROR">>, <<"PLAYING", "ERROR">>, <<"ERROR", "LOADING">>,
     <<"ERROR", "IDLE">>}

\* C12: every change of the playback state is an edge of the graph or leads
\* to Idle in a step that runs stopAudio; so the state becomes Playing only
\* from Loading, and Error only from Loading or Playing.
C12_ChangesFollowGraph ==
    [][audioState' # audioState
         => \/ <<audioState, audioState'>> \in StateGraph
            \/ /\ audioState' = "IDLE"
               /\ lastOp'.op \in {"stopAudio", "loadContent"}]_vars

\* C13: a playAudio call that was in flight when a navigation ran starts no
\* source when it settles and sets neither Playing nor Error.
C13_NavigationInterruptsPlay ==
    [][\A i \in navigatedSince :
          calls'[i].pc # calls[i].pc
            => /\ nodes'[i] # "playing"
               /\ audioState' \notin {"PLAYING", "ERROR"}]_vars

\* C14: at most one playAudio call is in flight: while a call that passed the
\* guard has not settled, no other call passes the guard.
C14_OneCallInFlight ==
    Cardinality(InFlight) <= 1

\* C15: the audio context is constructed at most once, by the first playAudio
\* call that passes the guard, and the ref holds that context ever after:
\* before any such call there is none, after it the first one constructed,
\* whatever stopAudio, navigation, guarded calls and failed calls have run.
C15_ContextCreatedOnce ==
    /\ ctxCreated <= 1
    /\ speechRequests = 0 => (ctxCreated = 0 /\ audioContextRef = Null)
    /\ speechRequests > 0 => (ctxCreated = 1 /\ audioContextRef = 1)

\* C15 witness: a second call has passed the guard after a failed call and a
\* navigation, and the ref holds the context of the first call.
C15_Witness ==
    /\ speechRequests = 2
    /\ audioContextRef = 1
    /\ ctxCreated = 1
    /\ fetchCount = 2
    /\ audioState = "LOADING"
    /\ \E i \in CallIds : calls[i].pc = "failed"

\* What loadContent can write for the fetch f: the chapter's text or one of
\* the fixed strings.
ResultsOf(f) == {TextOf(f[1], f[2]), MsgNoText, MsgReadFailed, MsgLoadFailed}

\* C16: no text fetch is cancelled and no response is dropped: a navigation
\* keeps every pending fetch, every step in which a pending fetch settles
\* writes the result of that fetch to the chapter content, whatever chapter
\* is selected, and the chapter content changes in no other step; so the
\* content shown once all fetches have settled is that of the response that
\* came last.
C16_ResponsesAlwaysWritten ==
    [][/\ fetchCount' # fetchCount
            => \A f \in Refs : CopiesIn(f, fetches') >= CopiesIn(f, fetches)
       /\ \A f \in Refs :
             CopiesIn(f, fetches') < CopiesIn(f, fetches)
               => chapterContent' \in ResultsOf(f)
       /\ chapterContent' # chapterContent
            => \E f \in Refs : CopiesIn(f, fetches') < CopiesIn(f, fetches)]_vars

\* C16 witness: every fetch has settled and the text shown is that of a
\* chapter other than the selected one.
C16_Witness ==
    /\ BagToSet(fetches) = {}
    /\ fetchCount >= 2
    /\ chapterContent.k = "text"
    /\ <<chapterContent.book, chapterContent.chap>> # <<selectedBook, selectedChapter>>

\* C17: after any toggles, from the empty mapping or from a mapping loaded
\* from storage, no chapter occurs twice in a book's array and no book has
\* two keys, so the count shown for a book is the number of its chapters
\* that are completed.
C17_NoDuplicateChapters ==
    /\ \A i, j \in 1..Len(progress) : progress[i].id = progress[j].id => i = j
    /\ \A i \in 1..Len(progress) :
          \A j, k \in 1..Len(progress[i].chapters) :
             progress[i].chapters[j] = progress[i].chapters[k] => j = k
    /\ \A b \in BookIds :
          completedCount(progress, b) =
             Cardinality({c \in Chapters : isCompleted(progress, b, c).value})

\* C17 witness: after toggles in this session one book has every chapter
\* completed and another has a key whose array was emptied again.
C17_Witness ==
    /\ dirty
    /\ \E b, d \in BookIds :
          /\ completedCount(progress, b) = NumChapters
          /\ Lookup(progress, d).defined
          /\ completedCount(progress, d) = 0

\* C18: whenever a source is active the playback state is Playing: neither
\* the ended callback of a stopped or replaced source nor a failing call
\* changes the state while a source is playing.
C18_ActiveSourceMeansPlaying ==
    ActiveNodes # {} => audioState = "PLAYING"

\* C19: the loading flag is true while any text fetch is pending, so the
\* completion of an earlier fetch does not clear it while the fetch of the
\* selected chapter is pending, and it is false once every fetch has settled.
C19_FlagTracksPendingFetches ==
    isLoadingContent <=> BagToSet(fetches) # {}

\* C20: from the default size and from every stored integer of 14..48, after
\* any adjustFontSize(2) and adjustFontSize(-2) calls the font size is an
\* integer of 14..48 and the stored text is that of the size in memory;
\* adjustFontSize(2) at 48 and adjustFontSize(-2) at 14 change neither.
C20_FontSizeClamped ==
    /\ [](/\ fontSize \in 14..48
          /\ fontPhase = "ready"
               => (fontStorage = toString(fontSize)
                     /\ parseInt(fontStorage) = fontSize))
    /\ [][/\ (fontSize = 48 /\ AdjustFontSize(2))
               => UNCHANGED <<fontSize, fontStorage>>
          /\ (fontSize = 14 /\ AdjustFontSize(-2))
               => UNCHANGED <<fontSize, fontStorage>>
          /\ \A delta \in Deltas :
                (AdjustFontSize(delta) /\ fontSize + delta \in 14..48)
                  => fontSize' = fontSize + delta]_vars

\* C20 witness: a startup found an odd size stored, and the size has since
\* been raised to the upper limit.
C20_Witness ==
    /\ fontPhase = "ready"
    /\ fontSize = 48
    /\ fontStorage = <<"4", "8">>
    /\ savedFontSize = <<"1", "5">>

=============================================================================
